---- MODULE Spec2Model ----
(***************************************************************************)
(* A model of the ISPC runtime boundary layer (ispcrt/ispcrt.cpp): the     *)
(* handle-based C entry points, their try/catch error translation, the     *)
(* process-wide error callback, device/context selection with fallback,    *)
(* memory-view creation, and task-queue submission.                        *)
(*                                                                         *)
(* Every entry point is an operator that maps the object model, the        *)
(* arguments and the outcome of the backend calls it makes (an exception   *)
(* raised by the backend, or none) to a result record:                     *)
(*   o        the object model when the call ends                          *)
(*   ret      the value returned ("noreturn" when the call did not return) *)
(*   exc      the exception that left the function (NoExc when none)       *)
(*   reports  the calls made to the registered error callback, in order    *)
(*   exited   TRUE when the default handler called exit(-1)                *)
(*   fault    TRUE when undefined behaviour ended in a hardware fault      *)
(*   info     what was stored through the ISPCRTDeviceInfo out-pointer     *)
(*   caught   the exceptions a catch clause of the boundary handled        *)
(***************************************************************************)
EXTENDS Integers, Sequences, FiniteSets, TLC

VARIABLES workload, build, g_errorFcn, objs, last, alive

vars == <<workload, build, g_errorFcn, objs, last, alive>>

\* ------------------------------------------------------------------ bounds
MaxDevices == 1
MaxContexts == 1
MaxViews == 2
MaxModules == 2
MaxKernels == 1
MaxQueues == 1
MaxFutures == 1
MaxCmds == 1
MaxBytes == 2
MaxDim == 2
MaxIdx == 1
MaxTime == 1
MaxUseCount == 2
MaxPipeline == 3

\* ------------------------------------------------------- handles and enums
NULL == 0

DeviceTypes == {"AUTO", "CPU", "GPU", "BOGUS"}
AllocTypes == {"SHARED", "DEVICE", "UNKNOWN"}

\* ISPCRTError codes that reach the callback.
ISPCRT_UNKNOWN_ERROR == "ISPCRT_UNKNOWN_ERROR"
ISPCRT_INVALID_OPERATION == "ISPCRT_INVALID_OPERATION"
ISPCRT_DEVICE_LOST == "ISPCRT_DEVICE_LOST"

\* (uint64_t)-1, the all-ones time value; kept as -1; real times are 0..MaxTime.
TimeNotAvailable == -1

\* The error callbacks a caller can register: two user handlers that return
\* normally, and the null pointer.  defaultErrorFcn is installed at start.
defaultErrorFcn == "defaultErrorFcn"
NullFcn == "nullptr"
UserFcns == {"f1", "f2"}
ErrorFcns == UserFcns \cup {NullFcn}

\* -------------------------------------------------------------- exceptions
\* An exception value: its dynamic type and, for ispcrt_runtime_error, the
\* ISPCRTError it carries.
NoExc == [type |-> "none", e |-> "none"]
StdRuntimeError == [type |-> "std::runtime_error", e |-> "none"]

\* What a backend call can raise.
BackendExcs ==
    { [type |-> "ispcrt_runtime_error", e |-> ISPCRT_DEVICE_LOST],
      [type |-> "std::logic_error", e |-> "none"],
      [type |-> "std::bad_alloc", e |-> "none"],
      [type |-> "non_std", e |-> "none"] }
BackendOutcomes == {NoExc} \cup BackendExcs

\* The C++ class hierarchy the catch clauses match against.
IsA(type, base) ==
    \/ type = base
    \/ base = "std::exception" /\ type \in {"std::runtime_error", "std::logic_error",
                                             "std::bad_alloc", "ispcrt_runtime_error"}
    \/ base = "std::runtime_error" /\ type = "ispcrt_runtime_error"

\* ------------------------------------------------------------- call record
\* What the caller sees of a boundary call: the entry point and its arguments,
\* how the call ended, and what it returned. NoCall: no call is in progress.
\* ret comes last: what kind of value it holds (a handle, a count, a truth
\* value, "void") follows from op and from how the call ended, and two records
\* are compared field by field in this order.
NoCall ==
    [op |-> "none", args |-> <<>>, blocked |-> FALSE, exited |-> FALSE,
     fault |-> FALSE, exc |-> NoExc, caught |-> <<>>, reports |-> <<>>,
     info |-> "unwritten", ret |-> "void"]

\* ----------------------------------------------------------- error handler
\* handleError: calls g_errorFcn when it is not null. The result is the list
\* of callback invocations and whether the process exited in the handler.
handleError(fcn, e) ==
    IF fcn = NullFcn THEN [reports |-> <<>>, exited |-> FALSE]
    ELSE [reports |-> <<[fcn |-> fcn, e |-> e]>>, exited |-> (fcn = defaultErrorFcn)]

\* The error code the catch chain of ISPCRT_CATCH_END hands to handleError:
\* the first clause, in order, whose type matches.
CatchCode(x) ==
    IF IsA(x.type, "ispcrt_runtime_error") THEN x.e
    ELSE IF IsA(x.type, "std::logic_error") THEN ISPCRT_INVALID_OPERATION
    ELSE IF IsA(x.type, "std::exception") THEN ISPCRT_UNKNOWN_ERROR
    ELSE ISPCRT_UNKNOWN_ERROR

\* A function body's result.
Ret(o, r) ==
    [o |-> o, ret |-> r, exc |-> NoExc, reports |-> <<>>, exited |-> FALSE,
     fault |-> FALSE, info |-> "unwritten", caught |-> <<>>]
Throw(o, x) ==
    [o |-> o, ret |-> "noreturn", exc |-> x, reports |-> <<>>, exited |-> FALSE,
     fault |-> FALSE, info |-> "unwritten", caught |-> <<>>]
Fault(o) ==
    [o |-> o, ret |-> "noreturn", exc |-> NoExc, reports |-> <<>>, exited |-> FALSE,
     fault |-> TRUE, info |-> "unwritten", caught |-> <<>>]

\* ISPCRT_CATCH_BEGIN ... ISPCRT_CATCH_END(a): a body that raised is turned
\* into one handleError call and the return of the sentinel a; a body that
\* returned (or never returned) is passed through.
ISPCRT_CATCH_END(body, a, fcn) ==
    IF body.exc = NoExc THEN body
    ELSE LET h == handleError(fcn, CatchCode(body.exc))
         IN [body EXCEPT !.exc = NoExc,
                         !.caught = Append(body.caught, body.exc),
                         !.reports = body.reports \o h.reports,
                         !.exited = h.exited,
                         !.ret = IF h.exited THEN "noreturn" ELSE a]

\* ISPCRT_CATCH_END_NO_RETURN(): the same for a void function.
ISPCRT_CATCH_END_NO_RETURN(body, fcn) == ISPCRT_CATCH_END(body, "void", fcn)

\* ------------------------------------------------------------ object model
\* One pool of slots per object kind; a handle is a slot index, NULL is 0.
\* A slot whose useCount is 0 holds no object.
NoDev == [backend |-> "none", useCount |-> 0]
NoView == [numBytes |-> 0, shared |-> FALSE, useCount |-> 0]
NoMod == [useCount |-> 0]
NoQueue == [cmds |-> <<>>, done |-> 0, useCount |-> 0]
NoFuture == [valid |-> FALSE, useCount |-> 0]

EmptyObjs ==
    [dev |-> [h \in 1..MaxDevices |-> NoDev],
     ctx |-> [h \in 1..MaxContexts |-> NoDev],
     mv  |-> [h \in 1..MaxViews |-> NoView],
     mod |-> [h \in 1..MaxModules |-> NoMod],
     krn |-> [h \in 1..MaxKernels |-> NoMod],
     tq  |-> [h \in 1..MaxQueues |-> NoQueue],
     fut |-> [h \in 1..MaxFutures |-> NoFuture]]

Live(pool) == {h \in DOMAIN pool : pool[h].useCount > 0}
Free(pool) == {h \in DOMAIN pool : pool[h].useCount = 0}
\* The handle a new object of the pool gets: its lowest free slot.
NewHandle(pool) == CHOOSE h \in Free(pool) : \A g \in Free(pool) : h <= g

\* `new T(...)`: the constructor raises x and nothing is left behind (the
\* new-expression frees the storage), or the object exists with useCount 1.
NewDevice(o, backend, x) ==
    IF x # NoExc THEN Throw(o, x)
    ELSE LET h == NewHandle(o.dev)
         IN Ret([o EXCEPT !.dev[h] = [backend |-> backend, useCount |-> 1]], h)

NewContext(o, backend, x) ==
    IF x # NoExc THEN Throw(o, x)
    ELSE LET h == NewHandle(o.ctx)
         IN Ret([o EXCEPT !.ctx[h] = [backend |-> backend, useCount |-> 1]], h)

\* ---------------------------------------------------------- object lifetime
\* A generic handle names an object of any kind: the pool and the slot.
\* referenceFromHandle casts it to RefCounted without a test.
referenceFromHandle(o, g) == o[g.kind][g.h]

\* The empty slot of each pool.
NoObj(kind) ==
    CASE kind \in {"dev", "ctx"} -> NoDev
      [] kind = "mv" -> NoView
      [] kind \in {"mod", "krn"} -> NoMod
      [] kind = "tq" -> NoQueue
      [] kind = "fut" -> NoFuture

\* RefCounted::refInc, refDec, useCount. refDec deletes the object when the
\* count reaches zero.
refInc(o, g) == [o EXCEPT ![g.kind][g.h].useCount = @ + 1]
refDec(o, g) ==
    IF referenceFromHandle(o, g).useCount = 1
    THEN [o EXCEPT ![g.kind][g.h] = NoObj(g.kind)]
    ELSE [o EXCEPT ![g.kind][g.h].useCount = @ - 1]
useCount(o, g) == referenceFromHandle(o, g).useCount

ispcrtUseCount(o, fcn, g) == ISPCRT_CATCH_END(Ret(o, useCount(o, g)), 0, fcn)

ispcrtRelease(o, fcn, g) == ISPCRT_CATCH_END_NO_RETURN(Ret(refDec(o, g), "void"), fcn)

\* A variant of ispcrtRetain that takes two references.
ispcrtRetain_Twice(o, fcn, g) ==
    ISPCRT_CATCH_END_NO_RETURN(Ret(refInc(refInc(o, g), g), "void"), fcn)

ispcrtRetain(o, fcn, g) == ISPCRT_CATCH_END_NO_RETURN(Ret(refInc(o, g), "void"), fcn)

\* ----------------------------------------------------- device initialization
\* bld is the build configuration: which of ISPCRT_BUILD_CPU / ISPCRT_BUILD_GPU
\* are defined. xNative, xGpu, xCpu are the outcomes of
\* Context::contextNativeHandle() and of the two constructors.
\* A variant of getISPCRTDeviceBody whose AUTO branch has no fallback: the
\* failure of the GPU constructor leaves the function.
getISPCRTDeviceBody_NoFallback(o, bld, type, context, d, deviceIdx, xNative, xGpu, xCpu) ==
    IF context # NULL /\ xNative # NoExc THEN Throw(o, xNative)
    ELSE CASE type = "AUTO" ->
                IF bld.gpu THEN NewDevice(o, "GPU", xGpu)
                ELSE IF bld.cpu THEN NewDevice(o, "CPU", xCpu)
                ELSE Ret(o, NULL)
           [] type = "GPU" ->
                IF bld.gpu THEN NewDevice(o, "GPU", xGpu) ELSE Throw(o, StdRuntimeError)
           [] type = "CPU" ->
                IF bld.cpu THEN NewDevice(o, "CPU", xCpu) ELSE Throw(o, StdRuntimeError)
           [] OTHER -> Throw(o, StdRuntimeError)

getISPCRTDeviceBody(o, bld, type, context, d, deviceIdx, xNative, xGpu, xCpu) ==
    IF context # NULL /\ xNative # NoExc THEN Throw(o, xNative)
    ELSE CASE type = "AUTO" ->
                IF bld.gpu /\ bld.cpu THEN
                    LET g == NewDevice(o, "GPU", xGpu)
                    IN IF g.exc # NoExc THEN NewDevice(g.o, "CPU", xCpu) ELSE g
                ELSE IF bld.cpu THEN NewDevice(o, "CPU", xCpu)
                ELSE IF bld.gpu THEN NewDevice(o, "GPU", xGpu)
                ELSE Ret(o, NULL)
           [] type = "GPU" ->
                IF bld.gpu THEN NewDevice(o, "GPU", xGpu) ELSE Throw(o, StdRuntimeError)
           [] type = "CPU" ->
                IF bld.cpu THEN NewDevice(o, "CPU", xCpu) ELSE Throw(o, StdRuntimeError)
           [] OTHER -> Throw(o, StdRuntimeError)

getISPCRTDevice(o, fcn, bld, type, context, d, deviceIdx, xNative, xGpu, xCpu) ==
    ISPCRT_CATCH_END(
        getISPCRTDeviceBody(o, bld, type, context, d, deviceIdx, xNative, xGpu, xCpu),
        NULL, fcn)

ispcrtGetDevice(o, fcn, bld, type, deviceIdx, xGpu, xCpu) ==
    getISPCRTDevice(o, fcn, bld, type, NULL, NULL, deviceIdx, NoExc, xGpu, xCpu)

\* xType is the outcome of Context::getDeviceType(), called outside any try.
ispcrtGetDeviceFromContext(o, fcn, bld, context, deviceIdx, xType, xNative, xGpu, xCpu) ==
    IF xType # NoExc THEN Throw(o, xType)
    ELSE getISPCRTDevice(o, fcn, bld, o.ctx[context].backend, context, NULL, deviceIdx,
                         xNative, xGpu, xCpu)

ispcrtGetDeviceFromNativeHandle(o, fcn, bld, context, d, xType, xNative, xGpu, xCpu) ==
    IF xType # NoExc THEN Throw(o, xType)
    ELSE getISPCRTDevice(o, fcn, bld, o.ctx[context].backend, context, d, 0,
                         xNative, xGpu, xCpu)

\* n is what the backend's deviceCount() returns, x what it raises.
ispcrtGetDeviceCount(o, fcn, bld, type, n, x) ==
    ISPCRT_CATCH_END(
        CASE type = "AUTO" -> Throw(o, StdRuntimeError)
          [] type = "GPU" ->
                IF ~bld.gpu THEN Throw(o, StdRuntimeError)
                ELSE IF x # NoExc THEN Throw(o, x) ELSE Ret(o, n)
          [] type = "CPU" ->
                IF ~bld.cpu THEN Throw(o, StdRuntimeError)
                ELSE IF x # NoExc THEN Throw(o, x) ELSE Ret(o, n)
          [] OTHER -> Throw(o, StdRuntimeError),
        0, fcn)

\* info is TRUE when the out-pointer is not null.
ispcrtGetDeviceInfo(o, fcn, bld, type, deviceIdx, info, x) ==
    ISPCRT_CATCH_END_NO_RETURN(
        IF ~info THEN Throw(o, StdRuntimeError)
        ELSE CASE type = "AUTO" -> Throw(o, StdRuntimeError)
               [] type = "GPU" ->
                    IF ~bld.gpu THEN Throw(o, StdRuntimeError)
                    ELSE IF x # NoExc THEN Throw(o, x)
                    ELSE [Ret(o, "void") EXCEPT !.info = "GPU"]
               [] type = "CPU" ->
                    IF ~bld.cpu THEN Throw(o, StdRuntimeError)
                    ELSE IF x # NoExc THEN Throw(o, x)
                    ELSE [Ret(o, "void") EXCEPT !.info = "CPU"]
               [] OTHER -> Throw(o, StdRuntimeError),
        fcn)

\* ---------------------------------------------------- context initialization
getISPCRTContextBody(o, bld, type, c, xGpu, xCpu) ==
    CASE type = "AUTO" ->
            IF bld.gpu /\ bld.cpu THEN
                LET g == NewContext(o, "GPU", xGpu)
                IN IF g.exc # NoExc THEN NewContext(g.o, "CPU", xCpu) ELSE g
            ELSE IF bld.cpu THEN NewContext(o, "CPU", xCpu)
            ELSE IF bld.gpu THEN NewContext(o, "GPU", xGpu)
            ELSE Ret(o, NULL)
      [] type = "GPU" ->
            IF bld.gpu THEN NewContext(o, "GPU", xGpu) ELSE Throw(o, StdRuntimeError)
      [] type = "CPU" ->
            IF bld.cpu THEN NewContext(o, "CPU", xCpu) ELSE Throw(o, StdRuntimeError)
      [] OTHER -> Throw(o, StdRuntimeError)

getISPCRTContext(o, fcn, bld, type, c, xGpu, xCpu) ==
    ISPCRT_CATCH_END(getISPCRTContextBody(o, bld, type, c, xGpu, xCpu), NULL, fcn)

ispcrtNewContext(o, fcn, bld, type, xGpu, xCpu) ==
    getISPCRTContext(o, fcn, bld, type, NULL, xGpu, xCpu)

ispcrtGetContextFromNativeHandle(o, fcn, bld, type, c, xGpu, xCpu) ==
    getISPCRTContext(o, fcn, bld, type, c, xGpu, xCpu)

\* ------------------------------------------------------------ memory views
\* Device::newMemoryView / Context::newMemoryView: raises x, or creates a view
\* of numBytes bytes that is shared exactly when SHARED was requested.
BackendNewMemoryView(o, numBytes, allocType, x) ==
    IF x # NoExc THEN Throw(o, x)
    ELSE LET h == NewHandle(o.mv)
         IN Ret([o EXCEPT !.mv[h] = [numBytes |-> numBytes,
                                     shared |-> (allocType = "SHARED"),
                                     useCount |-> 1]], h)

ispcrtNewMemoryView(o, fcn, d, numBytes, allocType, x) ==
    ISPCRT_CATCH_END(
        IF allocType # "SHARED" /\ allocType # "DEVICE" THEN Throw(o, StdRuntimeError)
        ELSE BackendNewMemoryView(o, numBytes, allocType, x),
        NULL, fcn)

\* A variant of ispcrtNewMemoryViewForContext that tests the allocation type
\* as the device entry point does, letting DEVICE through.
ispcrtNewMemoryViewForContext_AsForDevice(o, fcn, c, numBytes, allocType, x) ==
    ISPCRT_CATCH_END(
        IF allocType # "SHARED" /\ allocType # "DEVICE" THEN Throw(o, StdRuntimeError)
        ELSE BackendNewMemoryView(o, numBytes, allocType, x),
        NULL, fcn)

ispcrtNewMemoryViewForContext(o, fcn, c, numBytes, allocType, x) ==
    ISPCRT_CATCH_END(
        IF allocType # "SHARED" THEN Throw(o, StdRuntimeError)
        ELSE BackendNewMemoryView(o, numBytes, allocType, x),
        NULL, fcn)

ispcrtSize(o, fcn, h, x) ==
    ISPCRT_CATCH_END(IF x # NoExc THEN Throw(o, x) ELSE Ret(o, o.mv[h].numBytes), 0, fcn)

ispcrtGetMemoryViewAllocType(o, fcn, h, x) ==
    ISPCRT_CATCH_END(
        IF x # NoExc THEN Throw(o, x)
        ELSE Ret(o, IF o.mv[h].shared THEN "SHARED" ELSE "DEVICE"),
        "UNKNOWN", fcn)

\* ------------------------------------------------------ modules and kernels
BackendNewModule(o, x) ==
    IF x # NoExc THEN Throw(o, x)
    ELSE LET h == NewHandle(o.mod)
         IN Ret([o EXCEPT !.mod[h] = [useCount |-> 1]], h)

BackendNewKernel(o, x) ==
    IF x # NoExc THEN Throw(o, x)
    ELSE LET h == NewHandle(o.krn)
         IN Ret([o EXCEPT !.krn[h] = [useCount |-> 1]], h)

ispcrtLoadModule(o, fcn, d, x) == ISPCRT_CATCH_END(BackendNewModule(o, x), NULL, fcn)

ispcrtDynamicLinkModules(o, fcn, d, modules, x) ==
    ISPCRT_CATCH_END_NO_RETURN(IF x # NoExc THEN Throw(o, x) ELSE Ret(o, "void"), fcn)

ispcrtStaticLinkModules(o, fcn, d, modules, x) ==
    ISPCRT_CATCH_END(BackendNewModule(o, x), NULL, fcn)

ispcrtNewKernel(o, fcn, d, m, x) == ISPCRT_CATCH_END(BackendNewKernel(o, x), NULL, fcn)

\* -------------------------------------------------------------- task queues
BackendNewTaskQueue(o, x) ==
    IF x # NoExc THEN Throw(o, x)
    ELSE LET h == NewHandle(o.tq)
         IN Ret([o EXCEPT !.tq[h] = [cmds |-> <<>>, done |-> 0, useCount |-> 1]], h)

ispcrtNewTaskQueue(o, fcn, d, x) == ISPCRT_CATCH_END(BackendNewTaskQueue(o, x), NULL, fcn)

\* A queued command: its kind, its operands (handles, NULL when absent), its
\* sizes, and the Future that reports its completion (NULL when none).
Cmd(c, a, b, dims, fut) == [c |-> c, a |-> a, b |-> b, dims |-> dims, fut |-> fut]

\* TaskQueue::barrier/copyToDevice/copyToHost/copyMemoryView: raises x, or
\* appends the command to the queue.
BackendEnqueue(o, q, cmd, x) ==
    IF x # NoExc THEN Throw(o, x)
    ELSE Ret([o EXCEPT !.tq[q].cmds = Append(@, cmd)], "void")

\* TaskQueue::launch: raises x, or appends the launch and returns its Future,
\* which is not valid until the launch completes. params is NULL for nullptr.
BackendLaunch(o, q, kernel, params, dim0, dim1, dim2, x) ==
    IF x # NoExc THEN Throw(o, x)
    ELSE LET f == NewHandle(o.fut)
         IN Ret([o EXCEPT !.fut[f] = [valid |-> FALSE, useCount |-> 1],
                          !.tq[q].cmds =
                              Append(@, Cmd("launch", kernel, params,
                                            <<dim0, dim1, dim2>>, f))], f)

ispcrtDeviceBarrier(o, fcn, q, x) ==
    ISPCRT_CATCH_END_NO_RETURN(
        BackendEnqueue(o, q, Cmd("barrier", NULL, NULL, <<0, 0, 0>>, NULL), x), fcn)

ispcrtCopyToDevice(o, fcn, q, mv, x) ==
    ISPCRT_CATCH_END_NO_RETURN(
        BackendEnqueue(o, q, Cmd("copyToDevice", mv, NULL, <<0, 0, 0>>, NULL), x), fcn)

ispcrtCopyToHost(o, fcn, q, mv, x) ==
    ISPCRT_CATCH_END_NO_RETURN(
        BackendEnqueue(o, q, Cmd("copyToHost", mv, NULL, <<0, 0, 0>>, NULL), x), fcn)

\* A variant of ispcrtCopyMemoryView that enqueues the copy before it tests
\* the size against the two views.
ispcrtCopyMemoryView_EnqueueFirst(o, fcn, q, mvDst, mvSrc, size, x) ==
    ISPCRT_CATCH_END_NO_RETURN(
        LET e == BackendEnqueue(o, q, Cmd("copyMemoryView", mvDst, mvSrc, <<size, 0, 0>>, NULL), x)
        IN IF e.exc # NoExc THEN e
           ELSE IF size > o.mv[mvDst].numBytes THEN Throw(e.o, StdRuntimeError)
           ELSE IF size > o.mv[mvSrc].numBytes THEN Throw(e.o, StdRuntimeError)
           ELSE e,
        fcn)

ispcrtCopyMemoryView(o, fcn, q, mvDst, mvSrc, size, x) ==
    ISPCRT_CATCH_END_NO_RETURN(
        IF size > o.mv[mvDst].numBytes THEN Throw(o, StdRuntimeError)
        ELSE IF size > o.mv[mvSrc].numBytes THEN Throw(o, StdRuntimeError)
        ELSE BackendEnqueue(o, q, Cmd("copyMemoryView", mvDst, mvSrc, <<size, 0, 0>>, NULL), x),
        fcn)

ispcrtLaunch3D(o, fcn, q, k, p, dim0, dim1, dim2, x) ==
    ISPCRT_CATCH_END(
        LET params == IF p # NULL THEN p ELSE NULL
        IN BackendLaunch(o, q, k, params, dim0, dim1, dim2, x),
        NULL, fcn)

\* A variant of ispcrtLaunch1D that passes dim0 as the second grid dimension.
ispcrtLaunch1D_DimsSwapped(o, fcn, q, k, p, dim0, x) ==
    ISPCRT_CATCH_END(ispcrtLaunch3D(o, fcn, q, k, p, 1, dim0, 1, x), NULL, fcn)

\* The 1D and 2D forms call ispcrtLaunch3D inside their own try block.
ispcrtLaunch1D(o, fcn, q, k, p, dim0, x) ==
    ISPCRT_CATCH_END(ispcrtLaunch3D(o, fcn, q, k, p, dim0, 1, 1, x), NULL, fcn)

ispcrtLaunch2D(o, fcn, q, k, p, dim0, dim1, x) ==
    ISPCRT_CATCH_END(ispcrtLaunch3D(o, fcn, q, k, p, dim0, dim1, 1, x), NULL, fcn)

\* TaskQueue::sync returns once every command of the queue has completed;
\* until then the calling thread stays inside it.
SyncMayReturn_Early(o, q) == o.tq[q].done >= Len(o.tq[q].cmds) - 1

SyncMayReturn(o, q) == o.tq[q].done = Len(o.tq[q].cmds)

\* TaskQueue::sync ends: it raises x, or returns.
BackendSync(o, q, x) == IF x # NoExc THEN Throw(o, x) ELSE Ret(o, "void")

ispcrtSync(o, fcn, q, x) == ISPCRT_CATCH_END_NO_RETURN(BackendSync(o, q, x), fcn)

\* ------------------------------------------------------------------ futures
\* f = NULL is tested before the handle is used. t is what Future::time()
\* returns for a valid future.
ispcrtFutureGetTimeNs(o, fcn, f, t, x) ==
    ISPCRT_CATCH_END(
        IF f = NULL THEN Ret(o, TimeNotAvailable)
        ELSE IF x # NoExc THEN Throw(o, x)
        ELSE IF ~o.fut[f].valid THEN Ret(o, TimeNotAvailable)
        ELSE Ret(o, t),
        TimeNotAvailable, fcn)

\* The handle is used untested: with f = NULL the virtual call goes through a
\* null reference, which is undefined behaviour; ub is what the build makes of
\* it: a hardware fault, or a return of either truth value.
ispcrtFutureIsValid(o, fcn, f, ub, x) ==
    ISPCRT_CATCH_END(
        IF f = NULL THEN
            (IF ub = "fault" THEN Fault(o) ELSE Ret(o, ub = "true"))
        ELSE IF x # NoExc THEN Throw(o, x)
        ELSE Ret(o, o.fut[f].valid),
        FALSE, fcn)


\* ================================================================= actions
\* The caller is one of five programs, each exercising one part of the API
\* from a state the calls before it have set up:
\*   "select"   device and context selection, device queries
\*   "memory"   memory views of a device and of a context
\*   "modules"  modules, kernels and task queues of a device
\*   "copy"     copies and barriers on a task queue
\*   "launch"   kernel launches and their futures
\*   "pipeline" upload, launch, download on one queue, then sync
\*   "lifetime" references taken to and dropped from the objects it holds
\* It passes live handles of the right kind (anything else is outside the
\* contract), except where an entry point documents a null argument.
Workloads == {"select", "memory", "modules", "copy", "launch", "pipeline", "lifetime"}

Builds == { [cpu |-> TRUE, gpu |-> FALSE], [cpu |-> FALSE, gpu |-> TRUE],
            [cpu |-> TRUE, gpu |-> TRUE] }
Both == [cpu |-> TRUE, gpu |-> TRUE]

\* Queries of a live MemoryView or Future are plain reads of the object.
QueryOutcomes == {NoExc}
UBOutcomes == {"fault", "false", "true"}

Idle == alive /\ last.op = "none"

\* One boundary call: its effect on the object model is installed and its
\* observable outcome recorded. The process is gone once the default handler
\* has exited or undefined behaviour has faulted.
Call(op, args, out) ==
    /\ objs' = out.o
    /\ last' = [op |-> op, args |-> args, ret |-> out.ret, exc |-> out.exc,
                reports |-> out.reports, exited |-> out.exited, fault |-> out.fault,
                info |-> out.info, caught |-> out.caught, blocked |-> FALSE]
    /\ alive' = (~out.exited /\ ~out.fault)
    /\ UNCHANGED <<workload, build, g_errorFcn>>

\* The caller takes the outcome of its last call and goes on.
Return ==
    /\ alive
    /\ last.op # "none"
    /\ ~last.blocked
    /\ last' = NoCall
    /\ UNCHANGED <<workload, build, g_errorFcn, objs, alive>>

SetErrorFunc ==
    /\ Idle
    /\ \E fcn \in ErrorFcns :
          /\ g_errorFcn' = fcn
          /\ last' = [NoCall EXCEPT !.op = "ispcrtSetErrorFunc", !.args = [fcn |-> fcn]]
    /\ UNCHANGED <<workload, build, objs, alive>>

GetDevice ==
    /\ Idle
    /\ workload = "select"
    /\ Free(objs.dev) # {}
    /\ \E type \in DeviceTypes, idx \in 0..MaxIdx, xGpu, xCpu \in BackendOutcomes :
          Call("ispcrtGetDevice",
               [type |-> type, idx |-> idx, xGpu |-> xGpu, xCpu |-> xCpu],
               ispcrtGetDevice(objs, g_errorFcn, build, type, idx, xGpu, xCpu))

GetDeviceFromContext ==
    /\ Idle
    /\ workload = "select"
    /\ Free(objs.dev) # {}
    /\ \E c \in Live(objs.ctx), idx \in 0..MaxIdx,
          xType, xNative, xGpu, xCpu \in BackendOutcomes :
          Call("ispcrtGetDeviceFromContext",
               [c |-> c, idx |-> idx, xType |-> xType, xNative |-> xNative,
                xGpu |-> xGpu, xCpu |-> xCpu],
               ispcrtGetDeviceFromContext(objs, g_errorFcn, build, c, idx,
                                          xType, xNative, xGpu, xCpu))

GetDeviceFromNativeHandle ==
    /\ Idle
    /\ workload = "select"
    /\ Free(objs.dev) # {}
    /\ \E c \in Live(objs.ctx), xType, xNative, xGpu, xCpu \in BackendOutcomes :
          Call("ispcrtGetDeviceFromNativeHandle",
               [c |-> c, xType |-> xType, xNative |-> xNative,
                xGpu |-> xGpu, xCpu |-> xCpu],
               ispcrtGetDeviceFromNativeHandle(objs, g_errorFcn, build, c, 1,
                                               xType, xNative, xGpu, xCpu))

GetDeviceCount ==
    /\ Idle
    /\ workload = "select"
    /\ \E type \in DeviceTypes, n \in 0..MaxDevices, x \in BackendOutcomes :
          Call("ispcrtGetDeviceCount", [type |-> type, n |-> n, x |-> x],
               ispcrtGetDeviceCount(objs, g_errorFcn, build, type, n, x))

GetDeviceInfo ==
    /\ Idle
    /\ workload = "select"
    /\ \E type \in DeviceTypes, idx \in 0..MaxIdx, info \in BOOLEAN, x \in BackendOutcomes :
          Call("ispcrtGetDeviceInfo", [type |-> type, idx |-> idx, info |-> info, x |-> x],
               ispcrtGetDeviceInfo(objs, g_errorFcn, build, type, idx, info, x))

NewContextAct ==
    /\ Idle
    /\ workload = "select"
    /\ Free(objs.ctx) # {}
    /\ \E type \in DeviceTypes, xGpu, xCpu \in BackendOutcomes :
          Call("ispcrtNewContext", [type |-> type, xGpu |-> xGpu, xCpu |-> xCpu],
               ispcrtNewContext(objs, g_errorFcn, build, type, xGpu, xCpu))

GetContextFromNativeHandle ==
    /\ Idle
    /\ workload = "select"
    /\ Free(objs.ctx) # {}
    /\ \E type \in DeviceTypes, xGpu, xCpu \in BackendOutcomes :
          Call("ispcrtGetContextFromNativeHandle",
               [type |-> type, xGpu |-> xGpu, xCpu |-> xCpu],
               ispcrtGetContextFromNativeHandle(objs, g_errorFcn, build, type, 1, xGpu, xCpu))

NewMemoryView ==
    /\ Idle
    /\ workload = "memory"
    /\ Free(objs.mv) # {}
    /\ \E d \in Live(objs.dev), n \in 1..MaxBytes, t \in AllocTypes, x \in BackendOutcomes :
          Call("ispcrtNewMemoryView", [d |-> d, numBytes |-> n, allocType |-> t, x |-> x],
               ispcrtNewMemoryView(objs, g_errorFcn, d, n, t, x))

NewMemoryViewForContext ==
    /\ Idle
    /\ workload = "memory"
    /\ Free(objs.mv) # {}
    /\ \E c \in Live(objs.ctx), n \in 1..MaxBytes, t \in AllocTypes, x \in BackendOutcomes :
          Call("ispcrtNewMemoryViewForContext",
               [c |-> c, numBytes |-> n, allocType |-> t, x |-> x],
               ispcrtNewMemoryViewForContext(objs, g_errorFcn, c, n, t, x))

Size ==
    /\ Idle
    /\ workload = "memory"
    /\ \E h \in Live(objs.mv), x \in QueryOutcomes :
          Call("ispcrtSize", [h |-> h, x |-> x], ispcrtSize(objs, g_errorFcn, h, x))

GetMemoryViewAllocType ==
    /\ Idle
    /\ workload = "memory"
    /\ \E h \in Live(objs.mv), x \in QueryOutcomes :
          Call("ispcrtGetMemoryViewAllocType", [h |-> h, x |-> x],
               ispcrtGetMemoryViewAllocType(objs, g_errorFcn, h, x))

LoadModule ==
    /\ Idle
    /\ workload = "modules"
    /\ Free(objs.mod) # {}
    /\ \E d \in Live(objs.dev), x \in BackendOutcomes :
          Call("ispcrtLoadModule", [d |-> d, x |-> x],
               ispcrtLoadModule(objs, g_errorFcn, d, x))

DynamicLinkModules ==
    /\ Idle
    /\ workload = "modules"
    /\ \E d \in Live(objs.dev), ms \in SUBSET Live(objs.mod), x \in BackendOutcomes :
          Call("ispcrtDynamicLinkModules", [d |-> d, modules |-> ms, x |-> x],
               ispcrtDynamicLinkModules(objs, g_errorFcn, d, ms, x))

StaticLinkModules ==
    /\ Idle
    /\ workload = "modules"
    /\ Free(objs.mod) # {}
    /\ \E d \in Live(objs.dev), ms \in SUBSET Live(objs.mod), x \in BackendOutcomes :
          Call("ispcrtStaticLinkModules", [d |-> d, modules |-> ms, x |-> x],
               ispcrtStaticLinkModules(objs, g_errorFcn, d, ms, x))

NewKernel ==
    /\ Idle
    /\ workload = "modules"
    /\ Free(objs.krn) # {}
    /\ \E d \in Live(objs.dev), m \in Live(objs.mod), x \in BackendOutcomes :
          Call("ispcrtNewKernel", [d |-> d, m |-> m, x |-> x],
               ispcrtNewKernel(objs, g_errorFcn, d, m, x))

NewTaskQueue ==
    /\ Idle
    /\ workload \in {"modules", "lifetime"}
    /\ Free(objs.tq) # {}
    /\ \E d \in Live(objs.dev), x \in BackendOutcomes :
          Call("ispcrtNewTaskQueue", [d |-> d, x |-> x],
               ispcrtNewTaskQueue(objs, g_errorFcn, d, x))

\* A queue takes a command while it holds fewer than MaxCmds.
Room(q) ==
    Len(objs.tq[q].cmds) < (IF workload = "pipeline" THEN MaxPipeline ELSE MaxCmds)

DeviceBarrier ==
    /\ Idle
    /\ workload = "copy"
    /\ \E q \in Live(objs.tq), x \in BackendOutcomes :
          /\ Room(q)
          /\ Call("ispcrtDeviceBarrier", [q |-> q, x |-> x],
                  ispcrtDeviceBarrier(objs, g_errorFcn, q, x))

CopyToDevice ==
    /\ Idle
    /\ workload \in {"copy", "pipeline"}
    /\ \E q \in Live(objs.tq), mv \in Live(objs.mv), x \in BackendOutcomes :
          /\ Room(q)
          /\ Call("ispcrtCopyToDevice", [q |-> q, mv |-> mv, x |-> x],
                  ispcrtCopyToDevice(objs, g_errorFcn, q, mv, x))

CopyToHost ==
    /\ Idle
    /\ workload \in {"copy", "pipeline"}
    /\ \E q \in Live(objs.tq), mv \in Live(objs.mv), x \in BackendOutcomes :
          /\ Room(q)
          /\ Call("ispcrtCopyToHost", [q |-> q, mv |-> mv, x |-> x],
                  ispcrtCopyToHost(objs, g_errorFcn, q, mv, x))

CopyMemoryView ==
    /\ Idle
    /\ workload = "copy"
    /\ \E q \in Live(objs.tq), dst, src \in Live(objs.mv), size \in 0..(MaxBytes + 1),
          x \in BackendOutcomes :
          /\ Room(q)
          /\ Call("ispcrtCopyMemoryView",
                  [q |-> q, mvDst |-> dst, mvSrc |-> src, size |-> size, x |-> x],
                  ispcrtCopyMemoryView(objs, g_errorFcn, q, dst, src, size, x))

Launch1D ==
    /\ Idle
    /\ workload \in {"launch", "pipeline"}
    /\ \E q \in Live(objs.tq), k \in Live(objs.krn), p \in Live(objs.mv) \cup {NULL},
          d0 \in 1..MaxDim, x \in BackendOutcomes :
          /\ Room(q) /\ Free(objs.fut) # {}
          /\ Call("ispcrtLaunch1D", [q |-> q, k |-> k, p |-> p, dim0 |-> d0, x |-> x],
                  ispcrtLaunch1D(objs, g_errorFcn, q, k, p, d0, x))

Launch2D ==
    /\ Idle
    /\ workload = "launch"
    /\ \E q \in Live(objs.tq), k \in Live(objs.krn), p \in Live(objs.mv) \cup {NULL},
          d0, d1 \in 1..MaxDim, x \in BackendOutcomes :
          /\ Room(q) /\ Free(objs.fut) # {}
          /\ Call("ispcrtLaunch2D",
                  [q |-> q, k |-> k, p |-> p, dim0 |-> d0, dim1 |-> d1, x |-> x],
                  ispcrtLaunch2D(objs, g_errorFcn, q, k, p, d0, d1, x))

Launch3D ==
    /\ Idle
    /\ workload = "launch"
    /\ \E q \in Live(objs.tq), k \in Live(objs.krn), p \in Live(objs.mv) \cup {NULL},
          d0, d1, d2 \in 1..MaxDim, x \in BackendOutcomes :
          /\ Room(q) /\ Free(objs.fut) # {}
          /\ Call("ispcrtLaunch3D",
                  [q |-> q, k |-> k, p |-> p, dim0 |-> d0, dim1 |-> d1, dim2 |-> d2,
                   x |-> x],
                  ispcrtLaunch3D(objs, g_errorFcn, q, k, p, d0, d1, d2, x))

FutureGetTimeNs ==
    /\ Idle
    /\ workload = "launch"
    /\ \E f \in Live(objs.fut) \cup {NULL}, t \in 0..MaxTime, x \in QueryOutcomes :
          Call("ispcrtFutureGetTimeNs", [f |-> f, t |-> t, x |-> x],
               ispcrtFutureGetTimeNs(objs, g_errorFcn, f, t, x))

FutureIsValid ==
    /\ Idle
    /\ workload \in {"launch", "pipeline"}
    /\ \E f \in Live(objs.fut) \cup {NULL}, ub \in UBOutcomes, x \in QueryOutcomes :
          Call("ispcrtFutureIsValid", [f |-> f, ub |-> ub, x |-> x],
               ispcrtFutureIsValid(objs, g_errorFcn, f, ub, x))

\* The caller enters ispcrtSync and is blocked in TaskQueue::sync.
Sync ==
    /\ Idle
    /\ workload = "pipeline"
    /\ \E q \in Live(objs.tq) :
          last' = [NoCall EXCEPT !.op = "ispcrtSync", !.args = [q |-> q, x |-> NoExc],
                                 !.blocked = TRUE]
    /\ UNCHANGED <<workload, build, g_errorFcn, objs, alive>>

Syncing == alive /\ last.op = "ispcrtSync" /\ last.blocked

\* Every command has completed: TaskQueue::sync returns and so does ispcrtSync.
SyncReturn ==
    /\ Syncing
    /\ SyncMayReturn(objs, last.args.q)
    /\ Call("ispcrtSync", last.args, ispcrtSync(objs, g_errorFcn, last.args.q, NoExc))

\* TaskQueue::sync raises instead: the failure is caught and reported.
SyncFail ==
    /\ Syncing
    /\ \E x \in BackendExcs :
          Call("ispcrtSync", [q |-> last.args.q, x |-> x],
               ispcrtSync(objs, g_errorFcn, last.args.q, x))

\* The generic handles of the live objects.
Kinds == {"dev", "ctx", "mv", "mod", "krn", "tq", "fut"}
GenericHandles ==
    UNION {{[kind |-> k, h |-> h] : h \in Live(objs[k])} : k \in Kinds}

UseCount ==
    /\ Idle
    /\ workload = "lifetime"
    /\ \E g \in GenericHandles :
          Call("ispcrtUseCount", [g |-> g], ispcrtUseCount(objs, g_errorFcn, g))

Release ==
    /\ Idle
    /\ workload = "lifetime"
    /\ \E g \in GenericHandles :
          Call("ispcrtRelease", [g |-> g], ispcrtRelease(objs, g_errorFcn, g))

\* A caller holds at most MaxUseCount references to one object.
Retain ==
    /\ Idle
    /\ workload = "lifetime"
    /\ \E g \in GenericHandles :
          /\ useCount(objs, g) < MaxUseCount
          /\ Call("ispcrtRetain", [g |-> g], ispcrtRetain(objs, g_errorFcn, g))

\* The backend completes the oldest pending command of a queue; the command's
\* Future, if it has one, becomes valid.
BackendComplete ==
    /\ alive
    /\ \E q \in Live(objs.tq) :
          /\ objs.tq[q].done < Len(objs.tq[q].cmds)
          /\ LET cmd == objs.tq[q].cmds[objs.tq[q].done + 1]
                 o1 == [objs EXCEPT !.tq[q].done = @ + 1]
             IN objs' = IF cmd.fut = NULL THEN o1
                        ELSE [o1 EXCEPT !.fut[cmd.fut].valid = TRUE]
    /\ UNCHANGED <<workload, build, g_errorFcn, last, alive>>

\* ----------------------------------------------------------- specification
Device1 == [backend |-> "GPU", useCount |-> 1]
Live1 == [useCount |-> 1]
Queue1 == [cmds |-> <<>>, done |-> 0, useCount |-> 1]

\* The objects each caller starts with: what its earlier, successful creation
\* calls returned (handles are given out lowest slot first).
InitObjs(w) ==
    CASE w = "select" -> {EmptyObjs}
      [] w = "memory" ->
            {[EmptyObjs EXCEPT !.dev[1] = Device1, !.ctx[1] = Device1]}
      [] w = "modules" -> {[EmptyObjs EXCEPT !.dev[1] = Device1]}
      [] w = "copy" ->
            {[EmptyObjs EXCEPT !.dev[1] = Device1, !.tq[1] = Queue1,
                               !.mv[1] = [numBytes |-> n1, shared |-> TRUE, useCount |-> 1],
                               !.mv[2] = [numBytes |-> n2, shared |-> FALSE, useCount |-> 1]]
               : n1 \in 1..MaxBytes, n2 \in 1..MaxBytes}
      [] w = "launch" ->
            {[EmptyObjs EXCEPT !.dev[1] = Device1, !.mod[1] = Live1, !.krn[1] = Live1,
                               !.tq[1] = Queue1,
                               !.mv[1] = [numBytes |-> 1, shared |-> TRUE, useCount |-> 1]]}
      [] w = "lifetime" ->
            {[EmptyObjs EXCEPT !.dev[1] = Device1, !.ctx[1] = Device1],
             [EmptyObjs EXCEPT !.dev[1] = Device1,
                               !.mv[1] = [numBytes |-> 1, shared |-> TRUE, useCount |-> 1]],
             [EmptyObjs EXCEPT !.dev[1] = Device1, !.mod[1] = Live1, !.krn[1] = Live1],
             [EmptyObjs EXCEPT !.dev[1] = Device1, !.tq[1] = Queue1]}
      [] w = "pipeline" ->
            {[EmptyObjs EXCEPT !.dev[1] = Device1, !.mod[1] = Live1, !.krn[1] = Live1,
                               !.tq[1] = Queue1,
                               !.mv[1] = [numBytes |-> 1, shared |-> TRUE, useCount |-> 1]]}

\* The process starts with the default error handler. The "select" caller
\* runs in any of the three builds, the others in the build with both backends.
Init ==
    /\ workload \in Workloads
    /\ build \in (IF workload = "select" THEN Builds ELSE {Both})
    /\ g_errorFcn = defaultErrorFcn
    /\ objs \in InitObjs(workload)
    /\ last = NoCall
    /\ alive = TRUE

Next ==
    \/ Return
    \/ SetErrorFunc
    \/ GetDevice
    \/ GetDeviceFromContext
    \/ GetDeviceFromNativeHandle
    \/ GetDeviceCount
    \/ GetDeviceInfo
    \/ NewContextAct
    \/ GetContextFromNativeHandle
    \/ NewMemoryView
    \/ NewMemoryViewForContext
    \/ Size
    \/ GetMemoryViewAllocType
    \/ LoadModule
    \/ DynamicLinkModules
    \/ StaticLinkModules
    \/ NewKernel
    \/ NewTaskQueue
    \/ DeviceBarrier
    \/ CopyToDevice
    \/ CopyToHost
    \/ CopyMemoryView
    \/ Launch1D
    \/ Launch2D
    \/ Launch3D
    \/ FutureGetTimeNs
    \/ FutureIsValid
    \/ UseCount
    \/ Release
    \/ Retain
    \/ Sync
    \/ SyncReturn
    \/ SyncFail
    \/ BackendComplete

Spec == Init /\ [][Next]_vars

\* The "pipeline" caller under fairness: the backend keeps completing the
\* commands it was given, and a thread whose TaskQueue::sync can return does
\* return. (BackendComplete always changes objs, SyncReturn always ends the
\* blocking.)
inSync == last.blocked
LiveInit == Init /\ workload = "pipeline"
LiveNext ==
    \/ Return
    \/ SetErrorFunc
    \/ CopyToDevice
    \/ CopyToHost
    \/ Launch1D
    \/ FutureIsValid
    \/ Sync
    \/ SyncReturn
    \/ SyncFail
    \/ BackendComplete
LiveSpec == LiveInit /\ [][LiveNext]_vars /\ WF_objs(BackendComplete) /\ WF_inSync(SyncReturn)

\* ================================================================== claims
\* The call returned to its caller: no exit, no fault, no escaping exception.
Returned(l) == ~l.exited /\ ~l.fault /\ l.exc = NoExc

\* A step in which the caller makes the call `op`.
CallStep(op) == last.op = "none" /\ last'.op = op

\* The documented failure sentinel of each entry point.
Sentinel(op) ==
    CASE op \in {"ispcrtGetDevice", "ispcrtGetDeviceFromContext",
                 "ispcrtGetDeviceFromNativeHandle", "ispcrtNewContext",
                 "ispcrtGetContextFromNativeHandle", "ispcrtNewMemoryView",
                 "ispcrtNewMemoryViewForContext", "ispcrtLoadModule",
                 "ispcrtStaticLinkModules", "ispcrtNewKernel", "ispcrtNewTaskQueue",
                 "ispcrtLaunch1D", "ispcrtLaunch2D", "ispcrtLaunch3D"} -> NULL
      [] op \in {"ispcrtGetDeviceCount", "ispcrtSize"} -> 0
      [] op = "ispcrtFutureGetTimeNs" -> TimeNotAvailable
      [] op = "ispcrtGetMemoryViewAllocType" -> "UNKNOWN"
      [] op = "ispcrtFutureIsValid" -> FALSE
      [] OTHER -> "void"

\* The one report a failure of category e makes to the registered handler.
OneReport(e) == <<[fcn |-> g_errorFcn, e |-> e]>>

\* size exceeds the byte size of the destination or of the source view.
Oversized(o, a) == a.size > o.mv[a.mvDst].numBytes \/ a.size > o.mv[a.mvSrc].numBytes

\* C1: a copy-memory-view whose size exceeds numBytes(dst) or numBytes(src)
\* fails with an invalid-operation error delivered to the error callback, and
\* the queue's command sequence is the same before and after the call.
C1_OversizedCopyIsInvalidOperation ==
    [][(CallStep("ispcrtCopyMemoryView") /\ Oversized(objs, last'.args)) =>
          /\ objs'.tq = objs.tq
          /\ last'.caught # <<>>
          /\ (g_errorFcn # NullFcn => last'.reports = OneReport(ISPCRT_INVALID_OPERATION))
      ]_vars

\* What the code does for C1's case: the copy is refused before anything is
\* enqueued, and the failure is reported in the unknown-error category.
OversizedCopyReportsUnknownError ==
    [][(CallStep("ispcrtCopyMemoryView") /\ Oversized(objs, last'.args)) =>
          /\ objs' = objs
          /\ last'.caught = <<StdRuntimeError>>
          /\ (g_errorFcn # NullFcn => last'.reports = OneReport(ISPCRT_UNKNOWN_ERROR))
      ]_vars

\* C2: in every build and for every device index, get-device-count(AUTO) and
\* get-device-info(AUTO, idx, info) fail with an invalid-operation error
\* delivered to the error callback; get-device-count returns 0 and
\* get-device-info leaves *info unwritten.
C2_AutoQueryIsInvalidOperation ==
    (last.op \in {"ispcrtGetDeviceCount", "ispcrtGetDeviceInfo"} /\ last.args.type = "AUTO") =>
        /\ last.caught # <<>>
        /\ (g_errorFcn # NullFcn => last.reports = OneReport(ISPCRT_INVALID_OPERATION))
        /\ last.info = "unwritten"
        /\ (Returned(last) /\ last.op = "ispcrtGetDeviceCount" => last.ret = 0)

\* What the code does for C2's case: the query is refused, nothing is written,
\* and the failure is reported in the unknown-error category.
AutoQueryReportsUnknownError ==
    (last.op \in {"ispcrtGetDeviceCount", "ispcrtGetDeviceInfo"} /\ last.args.type = "AUTO") =>
        /\ last.caught = <<StdRuntimeError>>
        /\ (g_errorFcn # NullFcn => last.reports = OneReport(ISPCRT_UNKNOWN_ERROR))
        /\ last.info = "unwritten"
        /\ (Returned(last) /\ last.op = "ispcrtGetDeviceCount" => last.ret = 0)

\* The Future handle is null, or its operation has not completed.
NotCompleted(o, f) == f = NULL \/ ~o.fut[f].valid

\* C3: for a null Future handle and for a Future whose operation has not
\* completed, is-valid returns false and get-time-ns returns the sentinel -1;
\* neither call faults and neither invokes the error callback.
C3_NullOrPendingFutureIsSafe ==
    [][/\ (CallStep("ispcrtFutureIsValid") /\ NotCompleted(objs, last'.args.f)) =>
            (Returned(last') /\ last'.ret = FALSE /\ last'.reports = <<>>)
       /\ (CallStep("ispcrtFutureGetTimeNs") /\ NotCompleted(objs, last'.args.f)) =>
            (Returned(last') /\ last'.ret = TimeNotAvailable /\ last'.reports = <<>>)
      ]_vars

\* What the code does for C3's case: get-time-ns is safe for both handles, and
\* is-valid is safe for a live Future that has not completed.
PendingFutureIsSafe ==
    [][/\ (CallStep("ispcrtFutureIsValid") /\ last'.args.f # NULL
             /\ NotCompleted(objs, last'.args.f)) =>
            (Returned(last') /\ last'.ret = FALSE /\ last'.reports = <<>>)
       /\ (CallStep("ispcrtFutureGetTimeNs") /\ NotCompleted(objs, last'.args.f)) =>
            (Returned(last') /\ last'.ret = TimeNotAvailable /\ last'.reports = <<>>)
      ]_vars

\* C4: with both backends compiled in, get-device(AUTO, idx) tries the GPU
\* first. If the GPU constructor succeeds the returned device is a GPU device.
\* If it raises any failure, the call returns a non-null CPU device, the error
\* callback is not invoked and the only new object is that CPU device. The
\* call fails exactly when the CPU constructor fails as well.
C4_AutoFallsBackToCpu ==
    [][(CallStep("ispcrtGetDevice") /\ build = Both /\ last'.args.type = "AUTO") =>
          LET a == last'.args
              l == last'
          IN /\ a.xGpu = NoExc =>
                    /\ Returned(l) /\ l.ret # NULL /\ l.reports = <<>>
                    /\ objs' = [objs EXCEPT !.dev[l.ret] = [backend |-> "GPU", useCount |-> 1]]
             /\ (a.xGpu # NoExc /\ a.xCpu = NoExc) =>
                    /\ Returned(l) /\ l.ret # NULL /\ l.reports = <<>> /\ l.caught = <<>>
                    /\ objs' = [objs EXCEPT !.dev[l.ret] = [backend |-> "CPU", useCount |-> 1]]
             /\ (a.xGpu # NoExc /\ a.xCpu # NoExc) =>
                    /\ objs' = objs
                    /\ l.caught = <<a.xCpu>>
                    /\ (Returned(l) => l.ret = NULL)
      ]_vars

\* C4's case: the GPU constructor raised and the caller holds a CPU device.
C4_Witness ==
    /\ last.op = "ispcrtGetDevice" /\ build = Both /\ last.args.type = "AUTO"
    /\ last.args.xGpu # NoExc
    /\ Returned(last) /\ last.ret # NULL
    /\ objs.dev[last.ret].backend = "CPU"
    /\ last.reports = <<>>

\* The entry points that can fail (every one but ispcrtSetErrorFunc).
IsCall(l) == l.op \notin {"none", "ispcrtSetErrorFunc"}

\* A failure was raised during the call and left its body: a catch clause of
\* the boundary handled it, or it left the entry point.
Failing(l) == l.caught # <<>> \/ l.exc # NoExc

\* C5: for every boundary operation and every internal failure raised during
\* it, the registered error callback is invoked exactly once for that call and
\* the call returns its documented sentinel; also for launch-1D and launch-2D,
\* whose delegated launch-3D has a catch layer of its own. (Stated for the
\* handlers that return normally.)
C5_EveryFailureReportedOnce ==
    (IsCall(last) /\ g_errorFcn \in UserFcns /\ Failing(last)) =>
        /\ Len(last.reports) = 1
        /\ Returned(last)
        /\ last.ret = Sentinel(last.op)

\* What the code does for C5's case: a failure handled by a catch clause of
\* the boundary is handled by exactly one, reported once, and the sentinel is
\* returned; the nested catch layers of launch-1D/2D do not report twice.
CaughtFailureReportedOnce ==
    (IsCall(last) /\ g_errorFcn \in UserFcns /\ last.caught # <<>>) =>
        /\ Len(last.caught) = 1
        /\ last.reports = OneReport(CatchCode(last.caught[1]))
        /\ Returned(last)
        /\ last.ret = Sentinel(last.op)

\* C6: no failure raised by backend logic escapes a boundary operation to the
\* caller, for any entry point, including get-device-from-context and
\* get-device-from-native-handle, which query the Context's device type
\* before delegating.
C6_NoFailureEscapes == last.exc = NoExc

\* What the code does for C6's case: the only failures that leave an entry
\* point are those of Context::getDeviceType() in the two entry points that
\* call it before the try block of getISPCRTDevice; they are reported nowhere.
OnlyDeviceTypeQueryEscapes ==
    last.exc # NoExc =>
        /\ last.op \in {"ispcrtGetDeviceFromContext", "ispcrtGetDeviceFromNativeHandle"}
        /\ last.exc = last.args.xType
        /\ last.reports = <<>> /\ last.caught = <<>>

\* C7: the error callback is process-wide state that starts as the default
\* handler; after set-error-func(f) every later failure invokes f and only f,
\* the most recently registered one; after set-error-func(null) a failing call
\* invokes no handler, does not crash or terminate, and returns its sentinel.
C7_FailuresGoToRegisteredHandler ==
    [][/\ g_errorFcn' # g_errorFcn =>
            (CallStep("ispcrtSetErrorFunc") /\ g_errorFcn' = last'.args.fcn)
       /\ (last.op = "none" /\ IsCall(last') /\ Failing(last')) =>
            IF g_errorFcn = NullFcn
            THEN last'.reports = <<>> /\ Returned(last') /\ last'.ret = Sentinel(last'.op)
            ELSE /\ last'.reports # <<>>
                 /\ \A i \in DOMAIN last'.reports : last'.reports[i].fcn = g_errorFcn
      ]_vars

\* What the code does for C7's case: the handler changes only by
\* set-error-func, and every failure a catch clause handles goes to the
\* registered handler alone, or to none when null is registered.
CaughtFailuresGoToRegisteredHandler ==
    [][/\ g_errorFcn' # g_errorFcn =>
            (CallStep("ispcrtSetErrorFunc") /\ g_errorFcn' = last'.args.fcn)
       /\ (last.op = "none" /\ IsCall(last') /\ last'.caught # <<>>) =>
            IF g_errorFcn = NullFcn
            THEN last'.reports = <<>> /\ Returned(last') /\ last'.ret = Sentinel(last'.op)
            ELSE /\ last'.reports # <<>>
                 /\ \A i \in DOMAIN last'.reports : last'.reports[i].fcn = g_errorFcn
      ]_vars

\* The step's outcome is the outcome r of an entry-point operator: the same
\* object model, return value, reports, and the same way of ending.
SameOutcome(r) ==
    /\ objs' = r.o
    /\ last'.exc = r.exc /\ last'.exited = r.exited /\ last'.fault = r.fault
    /\ last'.reports = r.reports /\ last'.caught = r.caught
    /\ last'.ret = r.ret

\* The launch of the step returned a Future and its command, with grid dims
\* and parameters p (NULL for none), is the newest command of the queue.
Launched(dims) ==
    LET a == last'.args
    IN (Returned(last') /\ last'.ret # NULL) =>
          objs'.tq[a.q].cmds = Append(objs.tq[a.q].cmds,
                                      Cmd("launch", a.k, a.p, dims, last'.ret))

\* C8: launch-1D(q,k,p,d0) has the same observable effect as
\* launch-3D(q,k,p,d0,1,1), and launch-2D(q,k,p,d0,d1) as
\* launch-3D(q,k,p,d0,d1,1): the same command is enqueued, the same Future or
\* sentinel is returned and the same error reports are made. A null p reaches
\* the backend as 'no parameters'.
C8_LaunchFormsAgree ==
    [][/\ CallStep("ispcrtLaunch1D") =>
            LET a == last'.args
            IN /\ SameOutcome(ispcrtLaunch3D(objs, g_errorFcn, a.q, a.k, a.p,
                                             a.dim0, 1, 1, a.x))
               /\ Launched(<<a.dim0, 1, 1>>)
       /\ CallStep("ispcrtLaunch2D") =>
            LET a == last'.args
            IN /\ SameOutcome(ispcrtLaunch3D(objs, g_errorFcn, a.q, a.k, a.p,
                                             a.dim0, a.dim1, 1, a.x))
               /\ Launched(<<a.dim0, a.dim1, 1>>)
       /\ CallStep("ispcrtLaunch3D") =>
            Launched(<<last'.args.dim0, last'.args.dim1, last'.args.dim2>>)
      ]_vars

\* C8's case: a 1D launch of more than one item, without parameters, has
\* returned its Future.
C8_Witness ==
    /\ last.op = "ispcrtLaunch1D" /\ last.args.dim0 > 1 /\ last.args.p = NULL
    /\ Returned(last) /\ last.ret # NULL
    /\ objs.tq[last.args.q].cmds # <<>>

\* C9: after a failing boundary call whose callback returns normally (or with
\* no callback registered), the object model is as before the call: the call
\* returns its sentinel (a null handle for the creation operations), no object
\* is created, and no use-count and no queue's command sequence has changed.
\* The registered handler is unchanged too, so later calls behave as if the
\* failed call had not been made.
C9_FailedCallLeavesObjectsUnchanged ==
    [][(last.op = "none" /\ IsCall(last') /\ last'.caught # <<>>
          /\ g_errorFcn # defaultErrorFcn) =>
            /\ objs' = objs
            /\ g_errorFcn' = g_errorFcn
            /\ Returned(last')
            /\ last'.ret = Sentinel(last'.op)
      ]_vars

\* C9's case: an oversized copy has failed under a user handler, on a queue
\* next to live views.
C9_Witness ==
    /\ last.op = "ispcrtCopyMemoryView" /\ last.caught # <<>>
    /\ g_errorFcn \in UserFcns /\ last.reports # <<>>
    /\ Returned(last)
    /\ Oversized(objs, last.args)

\* The allocation types an entry point accepts.
Accepted(op) ==
    IF op = "ispcrtNewMemoryView" THEN {"SHARED", "DEVICE"} ELSE {"SHARED"}

\* C10: new-memory-view against a Device succeeds only for SHARED or DEVICE,
\* and new-memory-view-for-context only for SHARED. For any other requested
\* type the call reports an error, returns a null handle and fails before the
\* backend's allocation is reached, so no view is created. The get-alloc-type
\* of a created view is SHARED or DEVICE, never UNKNOWN.
C10_AllocTypeChecked ==
    [][/\ (\E op \in {"ispcrtNewMemoryView", "ispcrtNewMemoryViewForContext"} :
              CallStep(op)) =>
            LET a == last'.args
                l == last'
            IN /\ (Returned(l) /\ l.ret # NULL) =>
                      /\ a.allocType \in Accepted(l.op)
                      /\ objs'.mv[l.ret].shared = (a.allocType = "SHARED")
               /\ a.allocType \notin Accepted(l.op) =>
                      /\ l.caught = <<StdRuntimeError>>
                      /\ objs' = objs
                      /\ (g_errorFcn # NullFcn => l.reports # <<>>)
                      /\ (Returned(l) => l.ret = NULL)
       /\ CallStep("ispcrtGetMemoryViewAllocType") =>
            /\ Returned(last')
            /\ last'.ret \in {"SHARED", "DEVICE"}
            /\ last'.ret = (IF objs.mv[last'.args.h].shared THEN "SHARED" ELSE "DEVICE")
      ]_vars

\* C10's case: DEVICE memory was requested from a Context, with a backend
\* that would have raised a failure of its own, and the request was refused.
C10_Witness ==
    /\ last.op = "ispcrtNewMemoryViewForContext" /\ last.args.allocType = "DEVICE"
    /\ last.args.x # NoExc
    /\ last.caught = <<StdRuntimeError>>
    /\ Returned(last) /\ last.ret = NULL

\* The pool whose handle each creating entry point returns.
FactoryKind(op) ==
    CASE op \in {"ispcrtGetDevice", "ispcrtGetDeviceFromContext",
                 "ispcrtGetDeviceFromNativeHandle"} -> "dev"
      [] op \in {"ispcrtNewContext", "ispcrtGetContextFromNativeHandle"} -> "ctx"
      [] op \in {"ispcrtNewMemoryView", "ispcrtNewMemoryViewForContext"} -> "mv"
      [] op \in {"ispcrtLoadModule", "ispcrtStaticLinkModules"} -> "mod"
      [] op = "ispcrtNewKernel" -> "krn"
      [] op = "ispcrtNewTaskQueue" -> "tq"
      [] op \in {"ispcrtLaunch1D", "ispcrtLaunch2D", "ispcrtLaunch3D"} -> "fut"
      [] OTHER -> "none"

\* Every object but the one g names is the same before and after the step.
OthersUnchanged(g) ==
    \A k \in Kinds : \A h \in DOMAIN objs[k] :
        (k # g.kind \/ h # g.h) => objs'[k][h] = objs[k][h]

\* The step is a retain or release call on the object in slot h of pool k.
LifetimeStepOn(k, h) ==
    /\ CallStep("ispcrtRetain") \/ CallStep("ispcrtRelease")
    /\ last'.args.g = [kind |-> k, h |-> h]

\* C11: a handle returned by a creating call names a new object whose useCount
\* is 1; retain adds exactly 1 to the count of its object and release takes
\* exactly 1 from it, neither touching any other object; useCount returns the
\* current count and changes nothing; an object is destroyed exactly in the
\* release step that brings its count to 0, and no other call changes the
\* count of a live object (so the count is 1 + #retain - #release); retain
\* followed by release gives back the count the object had.
C11_RetainReleaseCounts ==
    /\ [](Idle => \A g \in GenericHandles :
             LET r1 == ispcrtRetain(objs, g_errorFcn, g)
                 r2 == ispcrtRelease(r1.o, g_errorFcn, g)
             IN /\ Returned(r1) /\ Returned(r2)
                /\ useCount(r2.o, g) = useCount(objs, g)
                /\ r2.o = objs)
    /\ [][/\ (/\ FactoryKind(last'.op) # "none"
              /\ CallStep(last'.op) /\ Returned(last') /\ last'.ret # NULL) =>
                LET g == [kind |-> FactoryKind(last'.op), h |-> last'.ret]
                IN /\ useCount(objs, g) = 0
                   /\ useCount(objs', g) = 1
          /\ CallStep("ispcrtRetain") =>
                LET g == last'.args.g
                IN /\ Returned(last') /\ last'.reports = <<>>
                   /\ useCount(objs', g) = useCount(objs, g) + 1
                   /\ objs' = [objs EXCEPT ![g.kind][g.h].useCount = @ + 1]
                   /\ OthersUnchanged(g)
          /\ CallStep("ispcrtRelease") =>
                LET g == last'.args.g
                IN /\ Returned(last') /\ last'.reports = <<>>
                   /\ useCount(objs', g) = useCount(objs, g) - 1
                   /\ (objs'[g.kind][g.h] = NoObj(g.kind)) <=> (useCount(objs, g) = 1)
                   /\ useCount(objs, g) > 1 =>
                         objs' = [objs EXCEPT ![g.kind][g.h].useCount = @ - 1]
                   /\ OthersUnchanged(g)
          /\ CallStep("ispcrtUseCount") =>
                /\ Returned(last')
                /\ last'.ret = useCount(objs, last'.args.g)
                /\ objs' = objs
          /\ \A k \in Kinds : \A h \in DOMAIN objs[k] :
                (objs[k][h].useCount > 0 /\ objs'[k][h].useCount # objs[k][h].useCount)
                    => LifetimeStepOn(k, h)
         ]_vars

\* A release has just taken back the reference an earlier retain added (the
\* count is 1 again), after another release destroyed the device.
C11_Witness ==
    /\ last.op = "ispcrtRelease"
    /\ Returned(last)
    /\ last.args.g.kind # "dev"
    /\ useCount(objs, last.args.g) = 1
    /\ objs.dev[1].useCount = 0

\* The Futures captured for the commands of queue q.
FuturesOf(o, q) ==
    {o.tq[q].cmds[i].fut : i \in 1..Len(o.tq[q].cmds)} \ {NULL}

\* The step in which a sync call returns to its caller without a failure.
SyncReturns == Syncing /\ ~last'.blocked /\ Returned(last') /\ last'.caught = <<>>

\* C12: on one task queue, when a sync call returns (having reported no
\* failure), every command enqueued on the queue before the call has completed
\* and is-valid is true for every Future captured for those commands; nothing
\* is enqueued while the caller is blocked in sync; and a caller blocked in
\* sync leaves it eventually, provided the backend keeps completing commands.
C12_SyncWaitsForAllCommands ==
    /\ [][/\ Syncing => objs'.tq[last.args.q].cmds = objs.tq[last.args.q].cmds
          /\ SyncReturns =>
                LET q == last.args.q
                IN /\ objs' = objs
                   /\ objs'.tq[q].done = Len(objs'.tq[q].cmds)
                   /\ \A f \in FuturesOf(objs', q) : \A ub \in UBOutcomes :
                         LET v == ispcrtFutureIsValid(objs', g_errorFcn, f, ub, NoExc)
                         IN Returned(v) /\ v.ret = TRUE
         ]_vars
    /\ (Syncing ~> ~Syncing)

\* The scenario: copy-to-device, a launch and copy-to-host were submitted to
\* the queue, sync was called and has returned, and the launch's Future is
\* valid.
C12_Witness ==
    /\ last.op = "ispcrtSync" /\ ~last.blocked
    /\ Returned(last) /\ last.caught = <<>>
    /\ LET cmds == objs.tq[last.args.q].cmds
       IN /\ Len(cmds) = 3
          /\ cmds[1].c = "copyToDevice" /\ cmds[2].c = "launch" /\ cmds[3].c = "copyToHost"
          /\ cmds[2].fut # NULL
          /\ objs.fut[cmds[2].fut].valid

====
